---- MODULE Spec2Model ----
(***************************************************************************)
(* Model of systemd_gui_dashboard.py: the command runner, the unit-list    *)
(* collector and the handlers of ServiceManagerWindow.                     *)
(*                                                                         *)
(* Text.  A token, an error text, a message is a TLA+ string.  A line of   *)
(* command output is the sequence of its fields when cut at every single   *)
(* blank: "a  b" is <<"a", "", "b">>, so an empty field stands for extra   *)
(* white space.  The standard output of a command is the sequence of its   *)
(* lines.                                                                  *)
(***************************************************************************)
EXTENDS Integers, Sequences, FiniteSets, TLC

VARIABLES
    rows,       \* self.model: the displayed table, one record per row
    selected,   \* selection model: index of the selected row, 0 for none
    buttons,    \* enabled flag of each of the nine push buttons
    details,    \* self.details_edit: the text of the detail pane
    statusMsg,  \* the status bar's message
    filterText, \* the fixed string the proxy model filters the rows by
    cmdLog,     \* the commands run by the last handler, in order
    dialogs,    \* the message boxes shown by the last handler, in order
    collected,  \* what get_services_list gave the last handler, if called
    lastEvent   \* the handler that ran last, with its argument

vars == <<rows, selected, buttons, details, statusMsg, filterText, cmdLog,
          dialogs, collected, lastEvent>>

-----------------------------------------------------------------------------
(* Bounds *)

\* Largest number of lines of a listing output of the collector's inputs.
MaxLines == 2
\* Largest exit code a command returns.
MaxCode == 2
\* Largest number of lines of a listing output where the order of the merged
\* list is examined.
MaxOrderLines == 3

-----------------------------------------------------------------------------
(* Strings and Python built-ins *)

Bullet == "●"

RECURSIVE Join(_)
\* " ".join(words)
Join(words) ==
    IF words = <<>> THEN ""
    ELSE IF Len(words) = 1 THEN words[1]
    ELSE words[1] \o " " \o Join(Tail(words))

\* str.split(): the white-space separated tokens of a line
Split(line) == SelectSeq(line, LAMBDA f : f # "")

RECURSIVE LStrip(_)
LStrip(line) ==
    IF line # <<>> /\ Head(line) = "" THEN LStrip(Tail(line)) ELSE line

RECURSIVE RStrip(_)
\* str.rstrip(): the line without its trailing white space
RStrip(line) ==
    IF line # <<>> /\ line[Len(line)] = ""
    THEN RStrip(SubSeq(line, 1, Len(line) - 1))
    ELSE line

\* str.strip()
Strip(line) == LStrip(RStrip(line))

RECURSIVE LinesStr(_)
\* A standard output as one string: its lines, each ended by a newline.
LinesStr(out) ==
    IF out = <<>> THEN ""
    ELSE Join(Head(out)) \o "\n" \o LinesStr(Tail(out))

\* A Python dict is the sequence of its items in insertion order.
DictHas(d, k) == \E i \in DOMAIN d : d[i].key = k

DictGet(d, k, default) ==
    IF DictHas(d, k)
    THEN d[CHOOSE i \in DOMAIN d : d[i].key = k].value
    ELSE default

\* d[k] = v: a new key is appended, a known key keeps its place
DictSet(d, k, v) ==
    IF DictHas(d, k)
    THEN [i \in DOMAIN d |-> IF d[i].key = k THEN [key |-> k, value |-> v] ELSE d[i]]
    ELSE Append(d, [key |-> k, value |-> v])

DictValues(d) == [i \in DOMAIN d |-> d[i].value]

-----------------------------------------------------------------------------
(* run_command *)

\* What subprocess.run does: it completes, or raises.
Completed(code, out, err) ==
    [kind |-> "completed", returncode |-> code, stdout |-> out, stderr |-> err,
     msg |-> ""]
Raises(kind, msg) ==
    [kind |-> kind, returncode |-> 0, stdout |-> <<>>, stderr |-> "", msg |-> msg]

\* the elevation prefix put before the whole command, its name included
FullCmdKeepsName(command, require_root) ==
    IF require_root
    THEN <<"pkexec", "/usr/bin/systemctl">> \o command
    ELSE command

\* full_cmd: the command as given, or behind pkexec with systemctl's full path
FullCmd(command, require_root) ==
    IF require_root
    THEN <<"pkexec", "/usr/bin/systemctl">> \o Tail(command)
    ELSE command

\* run_command with a handler missing: the exception reaches the caller
RunCommandPropagates(command, require_root, outcome) ==
    [argv |-> FullCmd(command, require_root), outcome |-> outcome,
     raised |-> outcome.kind # "completed",
     code |-> outcome.returncode, out |-> outcome.stdout, err |-> outcome.stderr]

\* The record of one call: the command executed, what the process did, and
\* the (exit code, stdout, stderr) returned; raised tells an exception left
\* run_command.
RunCommand(command, require_root, outcome) ==
    [argv |-> FullCmd(command, require_root), outcome |-> outcome,
     raised |-> FALSE,
     code |-> IF outcome.kind = "completed" THEN outcome.returncode ELSE 1,
     out |-> IF outcome.kind = "completed" THEN outcome.stdout ELSE <<>>,
     err |-> IF outcome.kind = "completed" THEN outcome.stderr
             ELSE IF outcome.kind = "FileNotFoundError"
             THEN "Command not found: " \o outcome.msg
             ELSE "Unexpected error: " \o outcome.msg]

-----------------------------------------------------------------------------
(* get_services_list *)

ListUnitFilesCmd ==
    <<"systemctl", "list-unit-files", "--type=service", "--no-legend", "--no-pager">>
ListUnitsCmd ==
    <<"systemctl", "list-units", "--type=service", "--all", "--no-legend", "--no-pager">>

RECURSIVE ParseUnitFiles(_, _)
\* the loop over list-unit-files lines, filling enabled_map
ParseUnitFiles(lines, enabled_map) ==
    IF lines = <<>> THEN enabled_map
    ELSE LET line == Strip(Head(lines))
             parts == Split(line)
         IN  IF line = <<>> THEN ParseUnitFiles(Tail(lines), enabled_map)
             ELSE IF Len(parts) < 2 THEN ParseUnitFiles(Tail(lines), enabled_map)
             ELSE ParseUnitFiles(Tail(lines),
                                 DictSet(enabled_map, parts[1], parts[2]))

\* parts without the bullet systemctl puts before failed units
DropBullet(parts) ==
    IF parts # <<>> /\ parts[1] = Bullet THEN Tail(parts) ELSE parts

\* the record of a line with the enablement lookup left out
LiveRecordNoLookup(parts, enabled_map) ==
    [unit |-> parts[1], load |-> parts[2], active |-> parts[3], sub |-> parts[4],
     description |-> Join(SubSeq(parts, 5, Len(parts))),
     enabled |-> "?"]

\* the record built from the tokens of one list-units line
LiveRecord(parts, enabled_map) ==
    [unit |-> parts[1], load |-> parts[2], active |-> parts[3], sub |-> parts[4],
     description |-> Join(SubSeq(parts, 5, Len(parts))),
     enabled |-> DictGet(enabled_map, parts[1], "?")]

RECURSIVE ParseUnitsCountsBullet(_, _, _)
\* the loop with the tokens counted before the bullet is removed
ParseUnitsCountsBullet(lines, enabled_map, runtime_services) ==
    IF lines = <<>> THEN runtime_services
    ELSE LET line == RStrip(Head(lines))
             parts == DropBullet(Split(line))
         IN  IF line = <<>>
             THEN ParseUnitsCountsBullet(Tail(lines), enabled_map, runtime_services)
             ELSE IF Len(Split(line)) < 5
             THEN ParseUnitsCountsBullet(Tail(lines), enabled_map, runtime_services)
             ELSE ParseUnitsCountsBullet(Tail(lines), enabled_map,
                                         DictSet(runtime_services, parts[1],
                                                 LiveRecord(parts, enabled_map)))

RECURSIVE ParseUnits(_, _, _)
\* the loop over list-units lines, filling runtime_services
ParseUnits(lines, enabled_map, runtime_services) ==
    IF lines = <<>> THEN runtime_services
    ELSE LET line == RStrip(Head(lines))
             parts == DropBullet(Split(line))
         IN  IF line = <<>> THEN ParseUnits(Tail(lines), enabled_map, runtime_services)
             ELSE IF Len(parts) < 5
             THEN ParseUnits(Tail(lines), enabled_map, runtime_services)
             ELSE ParseUnits(Tail(lines), enabled_map,
                             DictSet(runtime_services, parts[1],
                                     LiveRecord(parts, enabled_map)))

\* the record of a unit that is installed but not loaded
Placeholder(unit, state) ==
    [unit |-> unit, load |-> "n/a", active |-> "inactive", sub |-> "dead",
     description |-> "Not loaded (available to enable/start)",
     enabled |-> state]

\* the second loop without its test: a placeholder for every unit of enabled_map
InstallOnlyAll(enabled_map, runtime_services) ==
    [i \in DOMAIN enabled_map |-> Placeholder(enabled_map[i].key, enabled_map[i].value)]

\* the second loop: a placeholder for each unit of enabled_map without a live record
InstallOnly(enabled_map, runtime_services) ==
    LET only == SelectSeq(enabled_map,
                          LAMBDA it : ~DictHas(runtime_services, it.key))
    IN  [i \in DOMAIN only |-> Placeholder(only[i].key, only[i].value)]

\* the merge with the placeholders put before the live records
MergePlaceholdersFirst(enabled_map, runtime_services) ==
    InstallOnly(enabled_map, runtime_services) \o DictValues(runtime_services)

\* services.extend(runtime_services.values()), then the placeholders
MergeServices(enabled_map, runtime_services) ==
    DictValues(runtime_services) \o InstallOnly(enabled_map, runtime_services)

\* enabled_map filled from the output whatever the exit code
EnabledMapIgnoresCode(ef) == ParseUnitFiles(ef.out, <<>>)

\* enabled_map after step 1
EnabledMap(ef) == IF ef.code = 0 THEN ParseUnitFiles(ef.out, <<>>) ELSE <<>>

\* get_services_list, given what its two commands do: the list returned or
\* the RuntimeError raised, and the two run_command calls it made.
GetServicesList(efOutcome, luOutcome) ==
    LET ef == RunCommand(ListUnitFilesCmd, FALSE, efOutcome)
        lu == RunCommand(ListUnitsCmd, FALSE, luOutcome)
    IN  IF lu.code # 0
        THEN [called |-> TRUE, raised |-> TRUE,
              error |-> "Failed to list services:" \o lu.err,
              services |-> <<>>, cmds |-> <<ef, lu>>]
        ELSE [called |-> TRUE, raised |-> FALSE, error |-> "",
              services |-> MergeServices(EnabledMap(ef),
                                         ParseUnits(lu.out, EnabledMap(ef), <<>>)),
              cmds |-> <<ef, lu>>]

\* a handler that did not call get_services_list
NotCollected ==
    [called |-> FALSE, raised |-> FALSE, error |-> "", services |-> <<>>,
     cmds |-> <<>>]

\* get_service_status: the text shown for a unit, and the call made
GetServiceStatus(unit, outcome) ==
    LET r == RunCommand(<<"systemctl", "status", unit, "--no-pager">>, FALSE, outcome)
    IN  [text |-> IF r.code = 0 THEN LinesStr(r.out)
                  ELSE LinesStr(r.out) \o "\n" \o r.err,
         cmd |-> r]

\* service_state_color with activity tested before enablement
ColorActivityFirst(active_state, enabled_state) ==
    IF active_state = "active" THEN "green"
    ELSE IF enabled_state \in {"disabled", "masked"} THEN "black"
    ELSE "red"

\* service_state_color
service_state_color(active_state, enabled_state) ==
    IF enabled_state \in {"disabled", "masked"} THEN "black"
    ELSE IF active_state = "active" THEN "green"
    ELSE "red"

-----------------------------------------------------------------------------
(* ServiceManagerWindow *)

ControlActions ==
    {"start", "stop", "restart", "reload", "enable", "disable", "mask", "unmask"}

ButtonNames == ControlActions \cup {"status"}

\* The part of the window the handlers read and write.  cmds and dialogs
\* collect what the running handler has executed and shown so far.
Window ==
    [rows |-> rows, selected |-> selected, buttons |-> buttons,
     details |-> details, statusMsg |-> statusMsg, filter |-> filterText,
     cmds |-> <<>>, dialogs |-> <<>>, collected |-> NotCollected]

MessageBox(kind, title, text) == [kind |-> kind, title |-> title, text |-> text]

get_selected_unit(w) ==
    IF w.selected = 0 THEN "" ELSE w.rows[w.selected].unit

get_selected_row_states(w) ==
    IF w.selected = 0 THEN [active |-> "", enabled |-> ""]
    ELSE [active |-> w.rows[w.selected].active,
          enabled |-> w.rows[w.selected].enabled]

\* update_buttons_enabled_state that offers Reload for an active unit only
ButtonStatesReloadIfActive(has_selection, active_state, enabled_state) ==
    [b \in ButtonNames |->
        /\ has_selection
        /\ CASE b = "start"   -> active_state # "active"
             [] b = "stop"    -> active_state = "active"
             [] b = "restart" -> active_state = "active"
             [] b = "reload"  -> active_state = "active"
             [] b = "enable"  -> enabled_state \notin {"enabled", "masked"}
             [] b = "disable" -> enabled_state \notin {"disabled", "masked"}
             [] b = "mask"    -> enabled_state # "masked"
             [] b = "unmask"  -> enabled_state \notin {"enabled", "disabled"}
             [] b = "status"  -> TRUE]

\* The flags update_buttons_enabled_state sets: every button follows the
\* selection, then the two if-chains refine the eight control buttons.
ButtonStates(has_selection, active_state, enabled_state) ==
    LET base == [b \in ButtonNames |-> has_selection]
        byActive ==
            IF active_state = "active"
            THEN [base EXCEPT !["start"] = FALSE, !["stop"] = TRUE,
                              !["restart"] = TRUE, !["reload"] = TRUE]
            ELSE [base EXCEPT !["start"] = TRUE, !["stop"] = FALSE,
                              !["restart"] = FALSE, !["reload"] = TRUE]
        byEnabled ==
            IF enabled_state = "enabled"
            THEN [byActive EXCEPT !["enable"] = FALSE, !["disable"] = TRUE,
                                  !["mask"] = TRUE, !["unmask"] = FALSE]
            ELSE IF enabled_state = "disabled"
            THEN [byActive EXCEPT !["enable"] = TRUE, !["disable"] = FALSE,
                                  !["mask"] = TRUE, !["unmask"] = FALSE]
            ELSE IF enabled_state = "masked"
            THEN [byActive EXCEPT !["enable"] = FALSE, !["disable"] = FALSE,
                                  !["mask"] = FALSE, !["unmask"] = TRUE]
            ELSE [byActive EXCEPT !["enable"] = TRUE, !["disable"] = TRUE,
                                  !["mask"] = TRUE, !["unmask"] = TRUE]
    IN  IF ~has_selection THEN base ELSE byEnabled

update_buttons_enabled_state(w) ==
    LET state == get_selected_row_states(w)
    IN  [w EXCEPT !.buttons = ButtonStates(get_selected_unit(w) # "",
                                           state.active, state.enabled)]

show_status_for_selected(w, auto, outcome) ==
    LET unit == get_selected_unit(w)
        st == GetServiceStatus(unit, outcome)
    IN  IF unit = ""
        THEN [w EXCEPT
                !.dialogs = IF auto THEN @
                            ELSE Append(@, MessageBox("warning", "No selection",
                                                      "Please select a service first.")),
                !.details = ""]
        ELSE [w EXCEPT
                !.cmds = Append(@, st.cmd),
                !.details = st.text,
                !.statusMsg = "Status loaded for " \o unit \o "."]

\* on_selection_changed without the update of the buttons
OnSelectionChangedStatusOnly(w, outcome) ==
    show_status_for_selected(w, TRUE, outcome)

on_selection_changed(w, outcome) ==
    show_status_for_selected(update_buttons_enabled_state(w), TRUE, outcome)

RECURSIVE Lower(_)
\* The text with its capital letters made small, as a case-insensitive match reads it.
Lower(text) ==
    IF text = "" THEN ""
    ELSE LET c == SubSeq(text, 1, 1)
             small == CASE c = "A" -> "a" [] c = "B" -> "b" [] c = "C" -> "c"
                        [] c = "D" -> "d" [] c = "E" -> "e" [] c = "F" -> "f"
                        [] c = "G" -> "g" [] c = "H" -> "h" [] c = "I" -> "i"
                        [] c = "J" -> "j" [] c = "K" -> "k" [] c = "L" -> "l"
                        [] c = "M" -> "m" [] c = "N" -> "n" [] c = "O" -> "o"
                        [] c = "P" -> "p" [] c = "Q" -> "q" [] c = "R" -> "r"
                        [] c = "S" -> "s" [] c = "T" -> "t" [] c = "U" -> "u"
                        [] c = "V" -> "v" [] c = "W" -> "w" [] c = "X" -> "x"
                        [] c = "Y" -> "y" [] c = "Z" -> "z" [] OTHER -> c
         IN  small \o Lower(SubSeq(text, 2, Len(text)))

\* text holds sub as a substring
Contains(text, sub) ==
    \E i \in 1..(Len(text) - Len(sub) + 1) : SubSeq(text, i, i + Len(sub) - 1) = sub

\* The proxy model lets a row through when one of its seven columns holds
\* the filter's fixed string, whatever the case (filterKeyColumn is -1).
FilterAccepts(row, text) ==
    \E column \in {row.unit, row.description, row.load, row.active, row.sub,
                   row.enabled, ""} :
        Contains(Lower(column), Lower(text))

\* on_filter_changed: the proxy model takes the text as its filter.  A
\* selected row the filter no longer lets through leaves the view, and the
\* selection model then signals on_selection_changed with nothing selected.
on_filter_changed(w, text, outcome) ==
    LET filtered == [w EXCEPT !.filter = text]
    IN  IF w.selected # 0 /\ ~FilterAccepts(w.rows[w.selected], text)
        THEN on_selection_changed([filtered EXCEPT !.selected = 0], outcome)
        ELSE filtered

\* One row of the table: the six text columns and the colour of the indicator.
RowOf(svc) ==
    [unit |-> svc.unit, description |-> svc.description, load |-> svc.load,
     active |-> svc.active, sub |-> svc.sub, enabled |-> svc.enabled,
     color |-> service_state_color(svc.active, svc.enabled)]

\* populate_model.  Removing the rows takes the selection with them, and the
\* selection model then signals on_selection_changed with nothing selected.
populate_model(w, services) ==
    LET emptied == [w EXCEPT !.rows = <<>>, !.selected = 0]
        cleared == IF w.selected # 0
                   THEN on_selection_changed(emptied, Completed(0, <<>>, ""))
                   ELSE emptied
    IN  [cleared EXCEPT !.rows = [i \in DOMAIN services |-> RowOf(services[i])]]

\* refresh_services that empties the table before it collects
RefreshClearsFirst(w, efOutcome, luOutcome) ==
    LET got == GetServicesList(efOutcome, luOutcome)
        ran == [populate_model(w, <<>>) EXCEPT !.cmds = @ \o got.cmds,
                                              !.collected = got]
    IN  IF got.raised
        THEN [ran EXCEPT
                !.statusMsg = "Error loading services.",
                !.dialogs = Append(@, MessageBox("critical", "Error",
                                "Failed to load services:\n" \o got.error))]
        ELSE [update_buttons_enabled_state(populate_model(ran, got.services))
              EXCEPT !.statusMsg = "Loaded " \o ToString(Len(got.services))
                                   \o " services.",
                     !.details = ""]

refresh_services(w, efOutcome, luOutcome) ==
    LET got == GetServicesList(efOutcome, luOutcome)
        ran == [w EXCEPT !.cmds = @ \o got.cmds, !.collected = got]
    IN  IF got.raised
        THEN [ran EXCEPT
                !.statusMsg = "Error loading services.",
                !.dialogs = Append(@, MessageBox("critical", "Error",
                                "Failed to load services:\n" \o got.error))]
        ELSE [update_buttons_enabled_state(populate_model(ran, got.services))
              EXCEPT !.statusMsg = "Loaded " \o ToString(Len(got.services))
                                   \o " services.",
                     !.details = ""]

ActionFailedText(action, unit, r) ==
    "Action '" \o action \o "' failed for " \o unit \o " (exit code "
    \o ToString(r.code) \o ").\n\nOutput:\n" \o LinesStr(r.out)
    \o "\n\nErrors:\n" \o r.err

\* run_action that refreshes the list whatever the exit code
RunActionAlwaysRefreshes(w, action, ctlOutcome, efOutcome, luOutcome) ==
    LET unit == get_selected_unit(w)
        r == RunCommand(<<"systemctl", action, unit>>, TRUE, ctlOutcome)
        ran == [w EXCEPT !.cmds = Append(@, r)]
        fresh == refresh_services(ran, efOutcome, luOutcome)
    IN  IF r.code = 0
        THEN [fresh EXCEPT !.dialogs = Append(@, MessageBox("information", "Success",
                 "Action '" \o action \o "' completed successfully for:\n" \o unit))]
        ELSE [fresh EXCEPT !.dialogs = Append(@, MessageBox("critical", "Error",
                 ActionFailedText(action, unit, r)))]

\* run_action that reports success without collecting the list again
RunActionNoRefresh(w, action, ctlOutcome, efOutcome, luOutcome) ==
    LET unit == get_selected_unit(w)
        r == RunCommand(<<"systemctl", action, unit>>, TRUE, ctlOutcome)
        ran == [w EXCEPT !.cmds = Append(@, r)]
    IN  IF r.code = 0
        THEN [ran EXCEPT
                !.statusMsg = "Action '" \o action
                              \o "' completed successfully for " \o unit \o ".",
                !.dialogs = Append(@, MessageBox("information", "Success",
                 "Action '" \o action \o "' completed successfully for:\n" \o unit))]
        ELSE [ran EXCEPT
                !.statusMsg = "Action '" \o action \o "' failed for " \o unit \o ".",
                !.dialogs = Append(@, MessageBox("critical", "Error",
                                                 ActionFailedText(action, unit, r)))]

run_action(w, action, ctlOutcome, efOutcome, luOutcome) ==
    LET unit == get_selected_unit(w)
        r == RunCommand(<<"systemctl", action, unit>>, TRUE, ctlOutcome)
        ran == [w EXCEPT !.cmds = Append(@, r)]
    IN  IF unit = ""
        THEN [w EXCEPT !.dialogs = Append(@, MessageBox("warning", "No selection",
                                          "Please select a service first."))]
        ELSE IF action \notin ControlActions
        THEN [w EXCEPT !.dialogs = Append(@, MessageBox("critical", "Error",
                                          "Invalid action: " \o action))]
        ELSE IF r.code = 0
        THEN [refresh_services(ran, efOutcome, luOutcome)
              EXCEPT !.dialogs = Append(@, MessageBox("information", "Success",
                 "Action '" \o action \o "' completed successfully for:\n" \o unit))]
        ELSE [ran EXCEPT
                !.statusMsg = "Action '" \o action \o "' failed for " \o unit \o ".",
                !.dialogs = Append(@, MessageBox("critical", "Error",
                                                 ActionFailedText(action, unit, r)))]

-----------------------------------------------------------------------------
(* What the service manager may answer *)

UnitA == "a.service"
UnitB == "b.service"
UnitC == "c.service"

\* Lines list-unit-files may print: well-formed ones, one with extra white
\* space, one with a single token, and a blank one.
EnableLines ==
    { <<UnitA, "enabled", "enabled">>,
      <<UnitA, "disabled", "enabled">>,
      <<UnitB, "masked", "enabled">>,
      <<UnitB, "", "", "static", "-">>,
      <<"", UnitA>>,
      <<"", "">> }

\* Lines list-units may print: well-formed ones with and without the bullet
\* and with extra white space, two with too few tokens, and a blank one.
LiveLines ==
    { <<UnitA, "loaded", "active", "running", "Secure", "Shell">>,
      <<UnitA, "loaded", "inactive", "dead", "Shell">>,
      <<Bullet, UnitA, "loaded", "failed", "failed", "Secure", "", "Shell">>,
      <<UnitB, "loaded", "active", "exited", "Timer", "">>,
      <<Bullet, UnitB, "not-found", "inactive", "dead", UnitB>>,
      <<"", "", UnitB, "loaded", "active", "running">>,
      <<Bullet, UnitA, "loaded", "failed", "failed">>,
      <<"", "">> }

\* The sequences over S of at most n elements.
SeqsUpTo(S, n) == UNION {[1..k -> S] : k \in 0..n}

FailCodes == 1..MaxCode

NotFound == Raises("FileNotFoundError", "[Errno 2] No such file or directory")
OtherError == Raises("Exception", "[Errno 13] Permission denied")

\* Outcomes of the two listing commands for the collector on its own.
AllEnableOutcomes ==
    {Completed(0, out, "") : out \in SeqsUpTo(EnableLines, MaxLines)}
    \cup {Completed(c, <<<<UnitA, "enabled", "enabled">>>>, "bus error") : c \in FailCodes}
    \cup {NotFound}
AllLiveOutcomes ==
    {Completed(0, out, "") : out \in SeqsUpTo(LiveLines, MaxLines)}
    \cup {Completed(c, <<>>, "Failed to connect to bus") : c \in FailCodes}
    \cup {NotFound}

\* Listing lines of three units, one of them listed twice with different
\* states, for the order of the merged list.
OrderEnableLines ==
    { <<UnitA, "enabled", "enabled">>,
      <<UnitA, "disabled", "enabled">>,
      <<UnitB, "masked", "enabled">>,
      <<UnitC, "static", "-">> }
OrderLiveLines ==
    { <<UnitA, "loaded", "active", "running", "Secure", "Shell">>,
      <<Bullet, UnitA, "loaded", "failed", "failed", "Secure", "Shell">>,
      <<UnitB, "loaded", "active", "exited", "Timer">>,
      <<UnitC, "loaded", "inactive", "dead", "Cron">> }
OrderEnableOutcomes ==
    {Completed(0, out, "") : out \in SeqsUpTo(OrderEnableLines, MaxOrderLines)}
    \cup {Completed(1, <<>>, "bus error")}
OrderLiveOutcomes ==
    {Completed(0, out, "") : out \in SeqsUpTo(OrderLiveLines, MaxOrderLines)}
    \cup {Completed(1, <<>>, "Failed to connect to bus")}

\* Outcomes of the commands while the window is in use.
UiEnableOuts ==
    { <<>>,
      << <<UnitA, "enabled", "enabled">>, <<UnitB, "disabled", "enabled">> >>,
      << <<UnitA, "masked", "enabled">>, <<UnitB, "static", "-">> >> }
UiLiveOuts ==
    { <<>>,
      << <<UnitA, "loaded", "active", "running", "Secure", "Shell">>,
         <<Bullet, UnitB, "loaded", "failed", "failed", "Timer">> >>,
      << <<UnitA, "loaded", "inactive", "dead", "Secure", "Shell">> >> }
UiEnableOutcomes ==
    {Completed(0, out, "") : out \in UiEnableOuts}
    \cup {Completed(1, <<<<UnitA, "enabled", "enabled">>>>, "bus error")}
UiLiveOutcomes ==
    {Completed(0, out, "") : out \in UiLiveOuts}
    \cup {Completed(1, <<>>, "Failed to connect to bus"), NotFound}
ControlOutcomes ==
    {Completed(0, <<>>, "")}
    \cup {Completed(c, <<<<"Job", "failed.">>>>, "Access denied") : c \in FailCodes}
    \cup {NotFound, OtherError}
\* Texts the operator types into the filter field.
FilterTexts == {"", "ACTIVE", "mask"}

StatusOutcomes ==
    {Completed(0, <<<<"Active:", "active">>>>, ""),
     Completed(MaxCode, <<<<"Active:", "inactive">>>>, "Warning: unit changed"),
     NotFound}

-----------------------------------------------------------------------------
(* The state machine *)

\* The window as _create_central_widget and _create_status_bar leave it,
\* before __init__ loads the list.
Init ==
    /\ rows = <<>>
    /\ selected = 0
    /\ buttons = [b \in ButtonNames |-> FALSE]
    /\ details = ""
    /\ statusMsg = "Ready"
    /\ filterText = ""
    /\ cmdLog = <<>>
    /\ dialogs = <<>>
    /\ collected = NotCollected
    /\ lastEvent = [name |-> "__init__", arg |-> ""]

Shown == lastEvent.name # "__init__"

\* The handler has returned: w is what it left.
Returns(w, name, arg) ==
    /\ rows' = w.rows
    /\ selected' = w.selected
    /\ buttons' = w.buttons
    /\ details' = w.details
    /\ statusMsg' = w.statusMsg
    /\ filterText' = w.filter
    /\ cmdLog' = w.cmds
    /\ dialogs' = w.dialogs
    /\ collected' = w.collected
    /\ lastEvent' = [name |-> name, arg |-> arg]

\* __init__ ends with self.refresh_services()
InitialLoad ==
    /\ ~Shown
    /\ \E ef \in UiEnableOutcomes, lu \in UiLiveOutcomes :
          Returns(refresh_services(Window, ef, lu), "initial_load", "")

\* The collector on its own: the first load, over every listing output.
CollectorLoad ==
    /\ ~Shown
    /\ \E ef \in AllEnableOutcomes, lu \in AllLiveOutcomes :
          Returns(refresh_services(Window, ef, lu), "initial_load", "")

\* The collector on its own: the first load, over listings of three units
\* with repeated units.
OrderLoad ==
    /\ ~Shown
    /\ \E ef \in OrderEnableOutcomes, lu \in OrderLiveOutcomes :
          Returns(refresh_services(Window, ef, lu), "initial_load", "")

\* refresh_action.triggered
RefreshTriggered ==
    /\ Shown
    /\ \E ef \in UiEnableOutcomes, lu \in UiLiveOutcomes :
          Returns(refresh_services(Window, ef, lu), "refresh_services", "")

\* The operator selects another of the rows the filter lets through: selectionChanged
SelectRow ==
    /\ Shown
    /\ \E i \in DOMAIN rows, st \in StatusOutcomes :
          /\ i # selected
          /\ FilterAccepts(rows[i], filterText)
          /\ Returns(on_selection_changed([Window EXCEPT !.selected = i], st),
                     "on_selection_changed", rows[i].unit)

\* The operator control-clicks the selected row: selectionChanged, nothing selected
Deselect ==
    /\ Shown
    /\ selected # 0
    /\ Returns(on_selection_changed([Window EXCEPT !.selected = 0],
                                    Completed(0, <<>>, "")),
               "on_selection_changed", "")

\* filter_edit.textChanged: the operator has typed another filter text
FilterEdited ==
    /\ Shown
    /\ \E text \in FilterTexts, st \in {Completed(0, <<>>, "")} :
          /\ text # filterText
          /\ Returns(on_filter_changed(Window, text, st), "on_filter_changed", text)

\* table_view.doubleClicked on the selected row
RowDoubleClicked ==
    /\ Shown
    /\ selected # 0
    /\ \E st \in StatusOutcomes :
          Returns(show_status_for_selected(Window, FALSE, st),
                  "on_row_double_clicked", rows[selected].unit)

\* status_button.clicked
StatusClicked ==
    /\ Shown
    /\ buttons["status"]
    /\ \E st \in StatusOutcomes :
          Returns(show_status_for_selected(Window, FALSE, st),
                  "show_status_for_selected", "")

\* clicked on one of the eight control buttons: run_action(action)
ButtonClicked ==
    /\ Shown
    /\ \E action \in ControlActions :
          /\ buttons[action]
          /\ \E ctl \in ControlOutcomes :
                IF ctl.kind = "completed" /\ ctl.returncode = 0
                THEN \E ef \in UiEnableOutcomes, lu \in UiLiveOutcomes :
                        Returns(run_action(Window, action, ctl, ef, lu),
                                "run_action", action)
                ELSE Returns(run_action(Window, action, ctl, NotFound, NotFound),
                             "run_action", action)

Next ==
    \/ InitialLoad
    \/ RefreshTriggered
    \/ SelectRow
    \/ Deselect
    \/ RowDoubleClicked
    \/ StatusClicked
    \/ FilterEdited
    \/ ButtonClicked

Spec == Init /\ [][Next]_vars

NextCollect == CollectorLoad

SpecCollect == Init /\ [][NextCollect]_vars

NextOrder == OrderLoad

SpecOrder == Init /\ [][NextOrder]_vars

-----------------------------------------------------------------------------
(* The listing outputs read on their own, for the properties of the collector *)

\* The two calls get_services_list made.
EfCall == collected.cmds[1]
LuCall == collected.cmds[2]

\* the tokens of a list-units line after the optional leading bullet
LiveTokens(line) ==
    LET t == Split(line) IN IF t # <<>> /\ t[1] = Bullet THEN Tail(t) ELSE t

\* Every line that is not blank carries its columns.
WellFormedEnable(out) ==
    \A i \in DOMAIN out : Split(out[i]) = <<>> \/ Len(Split(out[i])) >= 2
WellFormedLive(out) ==
    \A i \in DOMAIN out : Split(out[i]) = <<>> \/ Len(LiveTokens(out[i])) >= 5

\* The units the live listing names, and those it gives a full record for.
LiveUnitsIn(out) ==
    {LiveTokens(out[i])[1] : i \in {j \in DOMAIN out : LiveTokens(out[j]) # <<>>}}
LiveRecordsIn(out) ==
    {LiveTokens(out[i])[1] : i \in {j \in DOMAIN out : Len(LiveTokens(out[j])) >= 5}}

\* The lines of the enablement listing that give unit u a state.
StateLines(out, u) ==
    {i \in DOMAIN out : Len(Split(out[i])) >= 2 /\ Split(out[i])[1] = u}
LastOf(S) == CHOOSE i \in S : \A j \in S : j <= i

\* The state the enablement mapping holds for u after the call ef, "?" when
\* it holds none: the query failed, or no line gives u a state.
MappingState(ef, u) ==
    IF ef.code = 0 /\ StateLines(ef.out, u) # {}
    THEN Split(ef.out[LastOf(StateLines(ef.out, u))])[2]
    ELSE "?"

RecordsOf(u) == {i \in DOMAIN collected.services : collected.services[i].unit = u}

PlaceholderDescription == "Not loaded (available to enable/start)"

-----------------------------------------------------------------------------
(* Claims *)

\* C1: for a well-formed pair of listing outputs (every non-blank line has
\* its columns), each unit of the live-units output has exactly one record in
\* the list get_services_list returns, and that record's enabled field is the
\* state the enablement mapping holds for the unit, "?" when it holds none.
C1_LiveUnitsOnceWithEnablement ==
    (/\ collected.called /\ ~collected.raised
     /\ WellFormedEnable(EfCall.out) /\ WellFormedLive(LuCall.out))
    => \A u \in LiveUnitsIn(LuCall.out) :
          /\ Cardinality(RecordsOf(u)) = 1
          /\ \A i \in RecordsOf(u) :
                collected.services[i].enabled = MappingState(EfCall, u)

\* Both units are live; the mapping holds a state for one and none for the other.
C1_Witness ==
    /\ collected.called /\ ~collected.raised
    /\ WellFormedEnable(EfCall.out) /\ WellFormedLive(LuCall.out)
    /\ LiveUnitsIn(LuCall.out) = {UnitA, UnitB}
    /\ \E u, v \in {UnitA, UnitB} :
          /\ MappingState(EfCall, u) = "?"
          /\ MappingState(EfCall, v) \in {"enabled", "disabled", "masked", "static"}
          /\ \E i \in RecordsOf(v) : collected.services[i].enabled # "?"

\* C2: after a successful enablement query, every unit the enablement output
\* gives a state and the live-units output gives no record has a placeholder
\* record (load n/a, active inactive, sub dead, the fixed description) whose
\* enabled field is that state; and no unit with a live record has a placeholder.
C2_PlaceholderForInstallOnly ==
    (collected.called /\ ~collected.raised)
    => /\ \A u \in {UnitA, UnitB} :
            (/\ EfCall.code = 0 /\ StateLines(EfCall.out, u) # {}
             /\ u \notin LiveRecordsIn(LuCall.out))
            => \E i \in DOMAIN collected.services :
                  collected.services[i] =
                      [unit |-> u, load |-> "n/a", active |-> "inactive",
                       sub |-> "dead", description |-> PlaceholderDescription,
                       enabled |-> MappingState(EfCall, u)]
       /\ \A i \in DOMAIN collected.services :
            collected.services[i].unit \in LiveRecordsIn(LuCall.out)
            => /\ collected.services[i].description # PlaceholderDescription
               /\ collected.services[i].load # "n/a"

\* One unit is live and in the enablement output, the other only in the
\* enablement output: one live record, then one placeholder.
C2_Witness ==
    /\ collected.called /\ ~collected.raised /\ EfCall.code = 0
    /\ \E u, v \in {UnitA, UnitB} :
          /\ u # v
          /\ u \in LiveRecordsIn(LuCall.out) /\ StateLines(EfCall.out, u) # {}
          /\ v \notin LiveUnitsIn(LuCall.out) /\ StateLines(EfCall.out, v) # {}
          /\ \E i \in RecordsOf(v) :
                collected.services[i].description = PlaceholderDescription
    /\ Len(collected.services) = 2

\* C3: the colour of a row depends on (active, enabled) alone, enablement
\* first: black when enabled is disabled or masked, whatever active is;
\* otherwise green when active is active; otherwise red.
C3_ColorByEnablementThenActivity ==
    /\ \A i \in DOMAIN rows :
          /\ rows[i].enabled \in {"disabled", "masked"} => rows[i].color = "black"
          /\ (rows[i].enabled \notin {"disabled", "masked"} /\ rows[i].active = "active")
                => rows[i].color = "green"
          /\ (rows[i].enabled \notin {"disabled", "masked"} /\ rows[i].active # "active")
                => rows[i].color = "red"
    /\ service_state_color("active", "enabled") = "green"
    /\ service_state_color("inactive", "disabled") = "black"
    /\ service_state_color("failed", "masked") = "black"
    /\ service_state_color("failed", "static") = "red"

\* A running but masked unit shown black beside a failed static unit shown red.
C3_Witness ==
    \E i, j \in DOMAIN rows :
        /\ rows[i].active = "active" /\ rows[i].enabled = "masked"
        /\ rows[i].color = "black"
        /\ rows[j].active = "failed" /\ rows[j].enabled = "static"
        /\ rows[j].color = "red"

\* The availability table of the eight control buttons.
AvailabilityTable(active, enabled) ==
    [b \in ControlActions |->
        CASE b = "start"   -> active # "active"
          [] b = "stop"    -> active = "active"
          [] b = "restart" -> active = "active"
          [] b = "reload"  -> TRUE
          [] b = "enable"  -> CASE enabled = "enabled"  -> FALSE
                                [] enabled = "disabled" -> TRUE
                                [] enabled = "masked"   -> FALSE
                                [] OTHER                -> TRUE
          [] b = "disable" -> CASE enabled = "enabled"  -> TRUE
                                [] enabled = "disabled" -> FALSE
                                [] enabled = "masked"   -> FALSE
                                [] OTHER                -> TRUE
          [] b = "mask"    -> CASE enabled = "enabled"  -> TRUE
                                [] enabled = "disabled" -> TRUE
                                [] enabled = "masked"   -> FALSE
                                [] OTHER                -> TRUE
          [] b = "unmask"  -> CASE enabled = "enabled"  -> FALSE
                                [] enabled = "disabled" -> FALSE
                                [] enabled = "masked"   -> TRUE
                                [] OTHER                -> TRUE]

ProbeActive == {"active", "inactive", "failed", "activating", "?", ""}
ProbeEnabled == {"enabled", "disabled", "masked", "static", "indirect", "?", ""}

\* C4: with a unit selected, the control buttons follow the availability
\* table: for every (active, enabled), unknown and empty strings included,
\* and for the row selected when on_selection_changed has run.
C4_AvailabilityTable ==
    /\ \A a \in ProbeActive, e \in ProbeEnabled, b \in ControlActions :
          ButtonStates(TRUE, a, e)[b] = AvailabilityTable(a, e)[b]
    /\ (lastEvent.name = "on_selection_changed" /\ selected # 0)
          => \A b \in ControlActions :
                buttons[b] = AvailabilityTable(rows[selected].active,
                                               rows[selected].enabled)[b]

\* A failed unit of unknown enablement has just been selected.
C4_Witness ==
    /\ lastEvent.name = "on_selection_changed"
    /\ selected # 0
    /\ rows[selected].active = "failed"
    /\ rows[selected].enabled = "?"
    /\ buttons["start"] /\ buttons["reload"] /\ buttons["unmask"]
    /\ ~buttons["stop"]

\* C5: run_action on a selected unit runs, as its first command, pkexec,
\* /usr/bin/systemctl, the action, the unit, with action and unit as invoked;
\* and no command run by any handler names a control action without pkexec.
C5_ControlActionsElevated ==
    [][/\ (lastEvent'.name = "run_action" /\ selected # 0)
            => /\ cmdLog' # <<>>
               /\ cmdLog'[1].argv = <<"pkexec", "/usr/bin/systemctl",
                                      lastEvent'.arg, rows[selected].unit>>
               /\ lastEvent'.arg \in ControlActions
       /\ \A i \in DOMAIN cmdLog' :
            (\E k \in DOMAIN cmdLog'[i].argv : cmdLog'[i].argv[k] \in ControlActions)
            => /\ cmdLog'[i].argv[1] = "pkexec"
               /\ cmdLog'[i].argv[2] = "/usr/bin/systemctl"]_vars

\* unmask has run elevated, exited 0, and the list was collected again.
C5_Witness ==
    /\ lastEvent = [name |-> "run_action", arg |-> "unmask"]
    /\ Len(cmdLog) = 3
    /\ cmdLog[1].argv = <<"pkexec", "/usr/bin/systemctl", "unmask", UnitA>>
    /\ cmdLog[1].code = 0

\* The table shows exactly the records of a list, in its order.
Shows(table, services) ==
    /\ Len(table) = Len(services)
    /\ \A i \in DOMAIN table :
          /\ table[i].unit = services[i].unit
          /\ table[i].description = services[i].description
          /\ table[i].load = services[i].load
          /\ table[i].active = services[i].active
          /\ table[i].sub = services[i].sub
          /\ table[i].enabled = services[i].enabled

ControlExited(log, event) == event.name = "run_action" /\ log # <<>>

\* C6 as stated: whenever a control action's command exits 0, both listing
\* commands are run after it and the table shows the newly collected records.
C6_Original ==
    (ControlExited(cmdLog, lastEvent) /\ cmdLog[1].code = 0)
    => /\ Len(cmdLog) = 3
       /\ cmdLog[2].argv = ListUnitFilesCmd
       /\ cmdLog[3].argv = ListUnitsCmd
       /\ collected.called
       /\ Shows(rows, collected.services)

\* C6 amended: whenever a control action's command exits 0, both listing
\* commands are run after it, list-unit-files then list-units, before the
\* handler returns; when the live-units query exits 0 the table is replaced
\* by the newly collected records, and when it exits non-zero the table is
\* left as it was.
C6_RefreshAfterSuccess ==
    [][(ControlExited(cmdLog', lastEvent') /\ cmdLog'[1].code = 0)
        => /\ Len(cmdLog') = 3
           /\ cmdLog'[2].argv = ListUnitFilesCmd
           /\ cmdLog'[3].argv = ListUnitsCmd
           /\ collected'.called
           /\ collected'.cmds = <<cmdLog'[2], cmdLog'[3]>>
           /\ IF cmdLog'[3].code = 0
              THEN ~collected'.raised /\ Shows(rows', collected'.services)
              ELSE collected'.raised /\ rows' = rows]_vars

\* stop has exited 0 and the table shows the two records collected after it.
C6_Witness ==
    /\ lastEvent = [name |-> "run_action", arg |-> "stop"]
    /\ Len(cmdLog) = 3
    /\ cmdLog[1].code = 0
    /\ cmdLog[3].code = 0
    /\ Len(rows) = 2
    /\ Len(collected.services) = 2
    /\ rows[1].unit = collected.services[1].unit
    /\ rows[2].enabled = collected.services[2].enabled

\* C7: whenever a control action's command exits non-zero, one critical
\* dialog gives the exit code, the stdout and the stderr; no listing command
\* is run and the table and the selection are unchanged; the elevated command
\* is the only command the handler ran.
C7_FailureShownNoRefreshNoRetry ==
    [][(ControlExited(cmdLog', lastEvent') /\ cmdLog'[1].code # 0)
        => /\ Len(cmdLog') = 1
           /\ cmdLog'[1].argv[1] = "pkexec"
           /\ ~collected'.called
           /\ rows' = rows
           /\ selected' = selected
           /\ buttons' = buttons
           /\ Len(dialogs') = 1
           /\ dialogs'[1].kind = "critical"
           /\ dialogs'[1].text =
                 "Action '" \o lastEvent'.arg \o "' failed for "
                 \o rows[selected].unit \o " (exit code "
                 \o ToString(cmdLog'[1].code) \o ").\n\nOutput:\n"
                 \o LinesStr(cmdLog'[1].out) \o "\n\nErrors:\n"
                 \o cmdLog'[1].err]_vars

\* restart has exited with the largest code, output and error text captured.
C7_Witness ==
    /\ lastEvent = [name |-> "run_action", arg |-> "restart"]
    /\ Len(cmdLog) = 1
    /\ cmdLog[1].code = MaxCode
    /\ cmdLog[1].out # <<>>
    /\ cmdLog[1].err = "Access denied"
    /\ Len(dialogs) = 1
    /\ rows # <<>>

\* C8: when the live-units query of a collection exits non-zero, whatever the
\* enablement query returned, get_services_list raises an error whose text
\* ends with the captured stderr and returns no records, and the table, the
\* selection and the buttons stay as they were (the empty table on first load).
C8_LiveQueryFailureKeepsList ==
    [][(collected'.called /\ collected'.cmds[2].code # 0)
        => /\ collected'.raised
           /\ collected'.error = "Failed to list services:" \o collected'.cmds[2].err
           /\ collected'.services = <<>>
           /\ rows' = rows
           /\ selected' = selected
           /\ buttons' = buttons
           /\ \E d \in DOMAIN dialogs' :
                /\ dialogs'[d].kind = "critical"
                /\ dialogs'[d].text = "Failed to load services:\n" \o collected'.error]_vars

\* A refresh failed on the live-units query with a unit selected in a
\* table of two rows, the enablement query having succeeded.
C8_Witness ==
    /\ lastEvent.name = "refresh_services"
    /\ collected.called /\ collected.raised
    /\ EfCall.code = 0 /\ EfCall.out # <<>>
    /\ LuCall.code # 0
    /\ Len(rows) = 2
    /\ selected # 0

\* C9: when the enablement query exits non-zero and the live-units query
\* exits 0, get_services_list raises nothing and shows no dialog, every
\* record returned has enabled "?", and the records are exactly those of the
\* live units, one each.
C9_EnablementFailureDegrades ==
    (collected.called /\ EfCall.code # 0 /\ LuCall.code = 0)
    => /\ ~collected.raised
       /\ dialogs = <<>>
       /\ \A i \in DOMAIN collected.services : collected.services[i].enabled = "?"
       /\ {collected.services[i].unit : i \in DOMAIN collected.services}
             = LiveRecordsIn(LuCall.out)
       /\ Len(collected.services) = Cardinality(LiveRecordsIn(LuCall.out))

\* The enablement query failed while printing a state for a unit that is live.
C9_Witness ==
    /\ collected.called
    /\ EfCall.code # 0 /\ EfCall.out # <<>>
    /\ LuCall.code = 0
    /\ LiveRecordsIn(LuCall.out) = {UnitA, UnitB}
    /\ StateLines(EfCall.out, UnitA) # {}
    /\ Len(collected.services) = 2

\* C10: no call of run_command lets an exception out.  A missing executable
\* gives exit code 1, empty stdout and "Command not found: ..."; any other
\* failure to run gives a non-zero exit code, empty stdout and "Unexpected
\* error: ..."; a process that ran gives its own exit code, stdout and stderr.
C10_RunnerNeverRaises ==
    \A i \in DOMAIN cmdLog :
        /\ ~cmdLog[i].raised
        /\ cmdLog[i].outcome.kind = "FileNotFoundError"
              => /\ cmdLog[i].code = 1
                 /\ cmdLog[i].out = <<>>
                 /\ cmdLog[i].err = "Command not found: " \o cmdLog[i].outcome.msg
        /\ cmdLog[i].outcome.kind = "Exception"
              => /\ cmdLog[i].code # 0
                 /\ cmdLog[i].out = <<>>
                 /\ cmdLog[i].err = "Unexpected error: " \o cmdLog[i].outcome.msg
        /\ cmdLog[i].outcome.kind = "completed"
              => /\ cmdLog[i].code = cmdLog[i].outcome.returncode
                 /\ cmdLog[i].out = cmdLog[i].outcome.stdout
                 /\ cmdLog[i].err = cmdLog[i].outcome.stderr

\* The elevation wrapper was not found when a control action was run.
C10_Witness ==
    /\ lastEvent.name = "run_action"
    /\ Len(cmdLog) = 1
    /\ cmdLog[1].argv[1] = "pkexec"
    /\ cmdLog[1].outcome.kind = "FileNotFoundError"
    /\ cmdLog[1].code = 1

\* The lines of the live listing that give unit u a full record.
RecordLines(out, u) ==
    {i \in DOMAIN out : Len(LiveTokens(out[i])) >= 5 /\ LiveTokens(out[i])[1] = u}
FirstOf(S) == CHOOSE i \in S : \A j \in S : i <= j

\* The units the enablement mapping of the call ef holds.
MappedUnits(ef) ==
    IF ef.code # 0 THEN {}
    ELSE {Split(ef.out[i])[1] : i \in {j \in DOMAIN ef.out : Len(Split(ef.out[j])) >= 2}}

\* Record i of the returned list is a live record: its unit has a full line.
IsLive(i) == RecordLines(LuCall.out, collected.services[i].unit) # {}

\* C11: the list get_services_list returns holds the live records first, in
\* the order the listing first names their units, then the placeholders of
\* the install-only units, in the order the enablement listing first names
\* them; no placeholder precedes a live record.  A unit the live listing
\* repeats has the fields of its last line.
C11_LiveFirstThenInstallOnly ==
    (collected.called /\ ~collected.raised)
    => LET svc == collected.services
           out == LuCall.out
       IN  /\ \A i, j \in DOMAIN svc :
                 (i < j /\ IsLive(j)) => IsLive(i)
           /\ \A i, j \in DOMAIN svc :
                 (i < j /\ IsLive(i) /\ IsLive(j))
                 => FirstOf(RecordLines(out, svc[i].unit))
                       < FirstOf(RecordLines(out, svc[j].unit))
           /\ \A i, j \in DOMAIN svc :
                 (i < j /\ ~IsLive(i) /\ ~IsLive(j))
                 => FirstOf(StateLines(EfCall.out, svc[i].unit))
                       < FirstOf(StateLines(EfCall.out, svc[j].unit))
           /\ \A i \in DOMAIN svc :
                 IF IsLive(i)
                 THEN LET t == LiveTokens(out[LastOf(RecordLines(out, svc[i].unit))])
                      IN  /\ svc[i].load = t[2]
                          /\ svc[i].active = t[3]
                          /\ svc[i].sub = t[4]
                          /\ svc[i].description = Join(SubSeq(t, 5, Len(t)))
                 ELSE /\ svc[i].unit \in MappedUnits(EfCall)
                      /\ svc[i].description = PlaceholderDescription
           /\ {svc[i].unit : i \in DOMAIN svc}
                 = LiveRecordsIn(out) \cup MappedUnits(EfCall)

\* The live listing names a.service, b.service, then a.service again as
\* failed; the enablement listing names c.service before a.service: the list
\* is a.service (failed), b.service, then the placeholder of c.service.
C11_Witness ==
    /\ collected.called /\ ~collected.raised
    /\ Len(LuCall.out) = 3
    /\ LiveTokens(LuCall.out[1])[1] = UnitA
    /\ LiveTokens(LuCall.out[2])[1] = UnitB
    /\ LiveTokens(LuCall.out[3])[1] = UnitA
    /\ LiveTokens(LuCall.out[1])[3] = "active"
    /\ LiveTokens(LuCall.out[3])[3] = "failed"
    /\ Len(EfCall.out) = 2
    /\ Split(EfCall.out[1])[1] = UnitC
    /\ Split(EfCall.out[2])[1] = UnitA
    /\ Len(collected.services) = 3
    /\ collected.services[1].unit = UnitA
    /\ collected.services[1].active = "failed"
    /\ collected.services[2].unit = UnitB
    /\ collected.services[3].unit = UnitC
    /\ collected.services[3].load = "n/a"

\* The lines of the live listing that are not blank and have fewer than 5
\* tokens after the optional bullet.
ShortLines(out) ==
    {k \in DOMAIN out : LiveTokens(out[k]) # <<>> /\ Len(LiveTokens(out[k])) < 5}

\* C12: when the live listing holds a line of fewer than 5 tokens (the
\* optional leading bullet not counted), get_services_list raises nothing and
\* no record of the list comes from that line, whatever the enablement
\* output: a unit named by short lines only has no record but the placeholder
\* the enablement mapping gives it, a unit that also has a full line keeps
\* the fields of its last full line, and the list has one record per unit
\* with a full line or an enablement state.
C12_ShortLinesDropped ==
    (collected.called /\ LuCall.code = 0 /\ ShortLines(LuCall.out) # {})
    => LET svc == collected.services
           out == LuCall.out
       IN  /\ ~collected.raised
           /\ dialogs = <<>>
           /\ \A k \in ShortLines(out), i \in DOMAIN svc :
                 svc[i].unit = LiveTokens(out[k])[1]
                 => IF RecordLines(out, svc[i].unit) = {}
                    THEN svc[i] = [unit |-> svc[i].unit, load |-> "n/a",
                                   active |-> "inactive", sub |-> "dead",
                                   description |-> PlaceholderDescription,
                                   enabled |-> MappingState(EfCall, svc[i].unit)]
                         /\ svc[i].unit \in MappedUnits(EfCall)
                    ELSE LET t == LiveTokens(out[LastOf(RecordLines(out, svc[i].unit))])
                         IN  /\ svc[i].load = t[2]
                             /\ svc[i].active = t[3]
                             /\ svc[i].sub = t[4]
                             /\ svc[i].description = Join(SubSeq(t, 5, Len(t)))
           /\ Len(svc) = Cardinality(LiveRecordsIn(out) \cup MappedUnits(EfCall))

\* A full line of a.service is followed by a short line of a.service behind
\* a bullet: the one record keeps the fields of the full line.
C12_Witness ==
    /\ collected.called /\ ~collected.raised
    /\ Len(LuCall.out) = 2
    /\ ShortLines(LuCall.out) = {2}
    /\ Split(LuCall.out[2])[1] = Bullet
    /\ LiveTokens(LuCall.out[2])[1] = UnitA
    /\ RecordLines(LuCall.out, UnitA) = {1}
    /\ LiveTokens(LuCall.out[1])[3] = "active"
    /\ MappedUnits(EfCall) = {UnitA, UnitB}
    /\ Len(collected.services) = 2
    /\ collected.services[1].unit = UnitA
    /\ collected.services[1].active = "active"
    /\ collected.services[2].unit = UnitB
    /\ collected.services[2].load = "n/a"

\* The flags derived from a row's (active, enabled): the availability table
\* for the eight control buttons, and the status button on.
Derived(row) ==
    [b \in ButtonNames |->
        IF b = "status" THEN TRUE
        ELSE AvailabilityTable(row.active, row.enabled)[b]]

\* C13: after every handler (first load, refresh that succeeds or fails,
\* selection change, filter change, control action, status request) the nine
\* button flags are those derived from the (active, enabled) of the row
\* selected in the displayed table, and with nothing selected all nine are off.
C13_ButtonsDerivedFromSelection ==
    /\ selected \in 0..Len(rows)
    /\ IF selected = 0
       THEN \A b \in ButtonNames : ~buttons[b]
       ELSE \A b \in ButtonNames : buttons[b] = Derived(rows[selected])[b]

\* The failed b.service was selected and the filter text ACTIVE, which its
\* row does not hold, has just taken it out of the view: nothing is selected
\* and every button is off, the other row still displayed.
C13_Witness ==
    /\ lastEvent = [name |-> "on_filter_changed", arg |-> "ACTIVE"]
    /\ statusMsg = "Status loaded for " \o UnitB \o "."
    /\ selected = 0
    /\ details = ""
    /\ Len(rows) = 2
    /\ rows[2].unit = UnitB
    /\ ~FilterAccepts(rows[2], filterText)
    /\ FilterAccepts(rows[1], filterText)
    /\ \A b \in ButtonNames : ~buttons[b]

====
